---- MODULE Spec2Model ----
(***************************************************************************)
(* sentiment_pipeline/fetch_news.py: the day-by-day GDELT news fetch.      *)
(*                                                                         *)
(* main() walks the calendar days of [START_DATE, END_DATE]; each day it   *)
(* calls fetch_news_from_gdelt twice (company query, then sector query),   *)
(* tags, ranks and truncates each result, appends both to all_articles and *)
(* sleeps.  After the loop it either reports that nothing was fetched or   *)
(* deduplicates on (title, url), sorts by the raw date string and writes   *)
(* the CSV file.                                                           *)
(*                                                                         *)
(* Python strings are TLA+ strings; Chars gives the characters of every    *)
(* string the model handles, so that the regular expressions, str.lower()  *)
(* and string comparison are computed character by character.  The columns *)
(* domain, language and source_country are copied from the response to the *)
(* file untouched and are left out of the records.                         *)
(***************************************************************************)
EXTENDS Integers, Sequences, FiniteSets, TLC

(***************************************************************************)
(* Bounds and program constants.                                           *)
(***************************************************************************)
\* Number of calendar days in the modelled range.  The source range
\* (2023-04-28 .. 2025-10-28) has 915 days; the model keeps START_DATE and
\* puts END_DATE RangeDays - 1 days after it.
RangeDays == 2

COMPANY_TOP == 15
SECTOR_TOP == 30
REQUEST_DELAY == 15

\* a.get(key) of an absent key, and JSON null
None == "<None>"
\* a title that is present, truthy and not a string (a JSON number, list, ...)
NonStr == "<non-str>"

COMPANY_QUERY == "company"
SECTOR_QUERY == "sector"

FINANCE_KEYWORDS ==
  <<"hdfc", "hdfc bank", "hdfc securities", "hdfc credit card",
    "bank", "banking", "deposits", "lending",
    "nbfc", "branch", "retail banking", "wholesale banking",
    "credit", "loan", "interest rate", "fixed deposit",
    "stock", "share", "equity", "nse",
    "bse", "ipo", "dividend", "valuation",
    "market cap", "investor", "investment", "mutual fund",
    "portfolio", "profit", "revenue", "earnings",
    "net income", "quarterly results", "q1 results", "q2 results",
    "q3 results", "q4 results", "financial year", "rbi",
    "reserve bank of india", "monetary policy", "repo rate", "liquidity",
    "npas", "non performing asset", "asset quality", "crr",
    "slr", "basel norms", "regulatory", "merger",
    "acquisition">>

Chars ==
  (  "hdfc" :> <<"h", "d", "f", "c">> @@
     "hdfc bank" :> <<"h", "d", "f", "c", " ", "b", "a", "n", "k">> @@
     "hdfc securities" :> <<"h", "d", "f", "c", " ", "s", "e", "c", "u", "r", "i", "t", "i", "e", "s">> @@
     "hdfc credit card" :> <<"h", "d", "f", "c", " ", "c", "r", "e", "d", "i", "t", " ", "c", "a", "r", "d">> @@
     "bank" :> <<"b", "a", "n", "k">> @@
     "banking" :> <<"b", "a", "n", "k", "i", "n", "g">> @@
     "deposits" :> <<"d", "e", "p", "o", "s", "i", "t", "s">> @@
     "lending" :> <<"l", "e", "n", "d", "i", "n", "g">> @@
     "nbfc" :> <<"n", "b", "f", "c">> @@
     "branch" :> <<"b", "r", "a", "n", "c", "h">> @@
     "retail banking" :> <<"r", "e", "t", "a", "i", "l", " ", "b", "a", "n", "k", "i", "n", "g">> @@
     "wholesale banking" :> <<"w", "h", "o", "l", "e", "s", "a", "l", "e", " ", "b", "a", "n", "k", "i", "n", "g">> @@
     "credit" :> <<"c", "r", "e", "d", "i", "t">> @@
     "loan" :> <<"l", "o", "a", "n">> @@
     "interest rate" :> <<"i", "n", "t", "e", "r", "e", "s", "t", " ", "r", "a", "t", "e">> @@
     "fixed deposit" :> <<"f", "i", "x", "e", "d", " ", "d", "e", "p", "o", "s", "i", "t">> @@
     "stock" :> <<"s", "t", "o", "c", "k">> @@
     "share" :> <<"s", "h", "a", "r", "e">> @@
     "equity" :> <<"e", "q", "u", "i", "t", "y">> @@
     "nse" :> <<"n", "s", "e">> @@
     "bse" :> <<"b", "s", "e">> @@
     "ipo" :> <<"i", "p", "o">> @@
     "dividend" :> <<"d", "i", "v", "i", "d", "e", "n", "d">> @@
     "valuation" :> <<"v", "a", "l", "u", "a", "t", "i", "o", "n">> @@
     "market cap" :> <<"m", "a", "r", "k", "e", "t", " ", "c", "a", "p">> @@
     "investor" :> <<"i", "n", "v", "e", "s", "t", "o", "r">> @@
     "investment" :> <<"i", "n", "v", "e", "s", "t", "m", "e", "n", "t">> @@
     "mutual fund" :> <<"m", "u", "t", "u", "a", "l", " ", "f", "u", "n", "d">> @@
     "portfolio" :> <<"p", "o", "r", "t", "f", "o", "l", "i", "o">> @@
     "profit" :> <<"p", "r", "o", "f", "i", "t">> @@
     "revenue" :> <<"r", "e", "v", "e", "n", "u", "e">> @@
     "earnings" :> <<"e", "a", "r", "n", "i", "n", "g", "s">> @@
     "net income" :> <<"n", "e", "t", " ", "i", "n", "c", "o", "m", "e">> @@
     "quarterly results" :> <<"q", "u", "a", "r", "t", "e", "r", "l", "y", " ", "r", "e", "s", "u", "l", "t", "s">> @@
     "q1 results" :> <<"q", "1", " ", "r", "e", "s", "u", "l", "t", "s">> @@
     "q2 results" :> <<"q", "2", " ", "r", "e", "s", "u", "l", "t", "s">> @@
     "q3 results" :> <<"q", "3", " ", "r", "e", "s", "u", "l", "t", "s">> @@
     "q4 results" :> <<"q", "4", " ", "r", "e", "s", "u", "l", "t", "s">> @@
     "financial year" :> <<"f", "i", "n", "a", "n", "c", "i", "a", "l", " ", "y", "e", "a", "r">> @@
     "rbi" :> <<"r", "b", "i">> @@
     "reserve bank of india" :> <<"r", "e", "s", "e", "r", "v", "e", " ", "b", "a", "n", "k", " ", "o", "f", " ", "i", "n", "d", "i", "a">> @@
     "monetary policy" :> <<"m", "o", "n", "e", "t", "a", "r", "y", " ", "p", "o", "l", "i", "c", "y">> @@
     "repo rate" :> <<"r", "e", "p", "o", " ", "r", "a", "t", "e">> @@
     "liquidity" :> <<"l", "i", "q", "u", "i", "d", "i", "t", "y">> @@
     "npas" :> <<"n", "p", "a", "s">> @@
     "non performing asset" :> <<"n", "o", "n", " ", "p", "e", "r", "f", "o", "r", "m", "i", "n", "g", " ", "a", "s", "s", "e", "t">> @@
     "asset quality" :> <<"a", "s", "s", "e", "t", " ", "q", "u", "a", "l", "i", "t", "y">> @@
     "crr" :> <<"c", "r", "r">> @@
     "slr" :> <<"s", "l", "r">> @@
     "basel norms" :> <<"b", "a", "s", "e", "l", " ", "n", "o", "r", "m", "s">> @@
     "regulatory" :> <<"r", "e", "g", "u", "l", "a", "t", "o", "r", "y">> @@
     "merger" :> <<"m", "e", "r", "g", "e", "r">> @@
     "acquisition" :> <<"a", "c", "q", "u", "i", "s", "i", "t", "i", "o", "n">> @@
     "HDFC Bank profit" :> <<"H", "D", "F", "C", " ", "B", "a", "n", "k", " ", "p", "r", "o", "f", "i", "t">> @@
     "RBI repo rate" :> <<"R", "B", "I", " ", "r", "e", "p", "o", " ", "r", "a", "t", "e">> @@
     "Bank bank BANK loan" :> <<"B", "a", "n", "k", " ", "b", "a", "n", "k", " ", "B", "A", "N", "K", " ", "l", "o", "a", "n">> @@
     "Credit loan" :> <<"C", "r", "e", "d", "i", "t", " ", "l", "o", "a", "n">> @@
     "Stock, share: equity!" :> <<"S", "t", "o", "c", "k", ",", " ", "s", "h", "a", "r", "e", ":", " ", "e", "q", "u", "i", "t", "y", "!">> @@
     "Q1 results: profit" :> <<"Q", "1", " ", "r", "e", "s", "u", "l", "t", "s", ":", " ", "p", "r", "o", "f", "i", "t">> @@
     "Bankrupt firm" :> <<"B", "a", "n", "k", "r", "u", "p", "t", " ", "f", "i", "r", "m">> @@
     "interest rate up" :> <<"i", "n", "t", "e", "r", "e", "s", "t", " ", "r", "a", "t", "e", " ", "u", "p">> @@
     "bank_loan" :> <<"b", "a", "n", "k", "_", "l", "o", "a", "n">> @@
     "Local weather" :> <<"L", "o", "c", "a", "l", " ", "w", "e", "a", "t", "h", "e", "r">> @@
     "" :> <<>> @@
     "HDFC BANK Q2" :> <<"H", "D", "F", "C", " ", "B", "A", "N", "K", " ", "Q", "2">> @@
     "20230428T231500Z" :> <<"2", "0", "2", "3", "0", "4", "2", "8", "T", "2", "3", "1", "5", "0", "0", "Z">> @@
     "20230428T221500Z" :> <<"2", "0", "2", "3", "0", "4", "2", "8", "T", "2", "2", "1", "5", "0", "0", "Z">> @@
     "20230428T211500Z" :> <<"2", "0", "2", "3", "0", "4", "2", "8", "T", "2", "1", "1", "5", "0", "0", "Z">> @@
     "20230428T201500Z" :> <<"2", "0", "2", "3", "0", "4", "2", "8", "T", "2", "0", "1", "5", "0", "0", "Z">> @@
     "20230428T191500Z" :> <<"2", "0", "2", "3", "0", "4", "2", "8", "T", "1", "9", "1", "5", "0", "0", "Z">> @@
     "20230428T181500Z" :> <<"2", "0", "2", "3", "0", "4", "2", "8", "T", "1", "8", "1", "5", "0", "0", "Z">> @@
     "20230428T171500Z" :> <<"2", "0", "2", "3", "0", "4", "2", "8", "T", "1", "7", "1", "5", "0", "0", "Z">> @@
     "20230428T161500Z" :> <<"2", "0", "2", "3", "0", "4", "2", "8", "T", "1", "6", "1", "5", "0", "0", "Z">> @@
     "20230428T151500Z" :> <<"2", "0", "2", "3", "0", "4", "2", "8", "T", "1", "5", "1", "5", "0", "0", "Z">> @@
     "20230428T141500Z" :> <<"2", "0", "2", "3", "0", "4", "2", "8", "T", "1", "4", "1", "5", "0", "0", "Z">> @@
     "20230428T131500Z" :> <<"2", "0", "2", "3", "0", "4", "2", "8", "T", "1", "3", "1", "5", "0", "0", "Z">> @@
     "20230428T121500Z" :> <<"2", "0", "2", "3", "0", "4", "2", "8", "T", "1", "2", "1", "5", "0", "0", "Z">> @@
     "20230428T111500Z" :> <<"2", "0", "2", "3", "0", "4", "2", "8", "T", "1", "1", "1", "5", "0", "0", "Z">> @@
     "20230428T101500Z" :> <<"2", "0", "2", "3", "0", "4", "2", "8", "T", "1", "0", "1", "5", "0", "0", "Z">> @@
     "20230428T091500Z" :> <<"2", "0", "2", "3", "0", "4", "2", "8", "T", "0", "9", "1", "5", "0", "0", "Z">> @@
     "20230428T081500Z" :> <<"2", "0", "2", "3", "0", "4", "2", "8", "T", "0", "8", "1", "5", "0", "0", "Z">> @@
     "20230428T071500Z" :> <<"2", "0", "2", "3", "0", "4", "2", "8", "T", "0", "7", "1", "5", "0", "0", "Z">> @@
     "2023-04-28" :> <<"2", "0", "2", "3", "-", "0", "4", "-", "2", "8">> @@
     "Apr 28" :> <<"A", "p", "r", " ", "2", "8">> @@
     "20230429T231500Z" :> <<"2", "0", "2", "3", "0", "4", "2", "9", "T", "2", "3", "1", "5", "0", "0", "Z">> @@
     "20230429T221500Z" :> <<"2", "0", "2", "3", "0", "4", "2", "9", "T", "2", "2", "1", "5", "0", "0", "Z">> @@
     "20230429T211500Z" :> <<"2", "0", "2", "3", "0", "4", "2", "9", "T", "2", "1", "1", "5", "0", "0", "Z">> @@
     "20230429T201500Z" :> <<"2", "0", "2", "3", "0", "4", "2", "9", "T", "2", "0", "1", "5", "0", "0", "Z">> @@
     "20230429T191500Z" :> <<"2", "0", "2", "3", "0", "4", "2", "9", "T", "1", "9", "1", "5", "0", "0", "Z">> @@
     "20230429T181500Z" :> <<"2", "0", "2", "3", "0", "4", "2", "9", "T", "1", "8", "1", "5", "0", "0", "Z">> @@
     "20230429T171500Z" :> <<"2", "0", "2", "3", "0", "4", "2", "9", "T", "1", "7", "1", "5", "0", "0", "Z">> @@
     "20230429T161500Z" :> <<"2", "0", "2", "3", "0", "4", "2", "9", "T", "1", "6", "1", "5", "0", "0", "Z">> @@
     "20230429T151500Z" :> <<"2", "0", "2", "3", "0", "4", "2", "9", "T", "1", "5", "1", "5", "0", "0", "Z">> @@
     "20230429T141500Z" :> <<"2", "0", "2", "3", "0", "4", "2", "9", "T", "1", "4", "1", "5", "0", "0", "Z">> @@
     "20230429T131500Z" :> <<"2", "0", "2", "3", "0", "4", "2", "9", "T", "1", "3", "1", "5", "0", "0", "Z">> @@
     "20230429T121500Z" :> <<"2", "0", "2", "3", "0", "4", "2", "9", "T", "1", "2", "1", "5", "0", "0", "Z">> @@
     "20230429T111500Z" :> <<"2", "0", "2", "3", "0", "4", "2", "9", "T", "1", "1", "1", "5", "0", "0", "Z">> @@
     "20230429T101500Z" :> <<"2", "0", "2", "3", "0", "4", "2", "9", "T", "1", "0", "1", "5", "0", "0", "Z">> @@
     "20230429T091500Z" :> <<"2", "0", "2", "3", "0", "4", "2", "9", "T", "0", "9", "1", "5", "0", "0", "Z">> @@
     "20230429T081500Z" :> <<"2", "0", "2", "3", "0", "4", "2", "9", "T", "0", "8", "1", "5", "0", "0", "Z">> @@
     "20230429T071500Z" :> <<"2", "0", "2", "3", "0", "4", "2", "9", "T", "0", "7", "1", "5", "0", "0", "Z">> @@
     "20230429T061500Z" :> <<"2", "0", "2", "3", "0", "4", "2", "9", "T", "0", "6", "1", "5", "0", "0", "Z">> @@
     "20230429T051500Z" :> <<"2", "0", "2", "3", "0", "4", "2", "9", "T", "0", "5", "1", "5", "0", "0", "Z">> @@
     "20230429T041500Z" :> <<"2", "0", "2", "3", "0", "4", "2", "9", "T", "0", "4", "1", "5", "0", "0", "Z">> @@
     "20230429T031500Z" :> <<"2", "0", "2", "3", "0", "4", "2", "9", "T", "0", "3", "1", "5", "0", "0", "Z">> @@
     "20230429T021500Z" :> <<"2", "0", "2", "3", "0", "4", "2", "9", "T", "0", "2", "1", "5", "0", "0", "Z">> @@
     "20230429T011500Z" :> <<"2", "0", "2", "3", "0", "4", "2", "9", "T", "0", "1", "1", "5", "0", "0", "Z">> @@
     "20230429T001500Z" :> <<"2", "0", "2", "3", "0", "4", "2", "9", "T", "0", "0", "1", "5", "0", "0", "Z">> @@
     "20230427T231500Z" :> <<"2", "0", "2", "3", "0", "4", "2", "7", "T", "2", "3", "1", "5", "0", "0", "Z">> @@
     "20230427T221500Z" :> <<"2", "0", "2", "3", "0", "4", "2", "7", "T", "2", "2", "1", "5", "0", "0", "Z">> @@
     "20230427T211500Z" :> <<"2", "0", "2", "3", "0", "4", "2", "7", "T", "2", "1", "1", "5", "0", "0", "Z">> @@
     "20230427T201500Z" :> <<"2", "0", "2", "3", "0", "4", "2", "7", "T", "2", "0", "1", "5", "0", "0", "Z">> @@
     "20230427T191500Z" :> <<"2", "0", "2", "3", "0", "4", "2", "7", "T", "1", "9", "1", "5", "0", "0", "Z">> @@
     "20230427T181500Z" :> <<"2", "0", "2", "3", "0", "4", "2", "7", "T", "1", "8", "1", "5", "0", "0", "Z">> @@
     "20230427T171500Z" :> <<"2", "0", "2", "3", "0", "4", "2", "7", "T", "1", "7", "1", "5", "0", "0", "Z">> @@
     "20230427T161500Z" :> <<"2", "0", "2", "3", "0", "4", "2", "7", "T", "1", "6", "1", "5", "0", "0", "Z">> @@
     "20230428" :> <<"2", "0", "2", "3", "0", "4", "2", "8">> @@
     "9" :> <<"9">> @@
     "20230428T011500Z" :> <<"2", "0", "2", "3", "0", "4", "2", "8", "T", "0", "1", "1", "5", "0", "0", "Z">> @@
     "20230428T021500Z" :> <<"2", "0", "2", "3", "0", "4", "2", "8", "T", "0", "2", "1", "5", "0", "0", "Z">> @@
     "20230428T031500Z" :> <<"2", "0", "2", "3", "0", "4", "2", "8", "T", "0", "3", "1", "5", "0", "0", "Z">> @@
     "20230428T041500Z" :> <<"2", "0", "2", "3", "0", "4", "2", "8", "T", "0", "4", "1", "5", "0", "0", "Z">> @@
     "20230428T051500Z" :> <<"2", "0", "2", "3", "0", "4", "2", "8", "T", "0", "5", "1", "5", "0", "0", "Z">> @@
     "20230428T061500Z" :> <<"2", "0", "2", "3", "0", "4", "2", "8", "T", "0", "6", "1", "5", "0", "0", "Z">> )

Ord ==
  (  " " :> 32 @@ "!" :> 33 @@ "," :> 44 @@ "-" :> 45 @@ "0" :> 48 @@ "1" :> 49 @@ "2" :> 50 @@ "3" :> 51 @@ "4" :> 52 @@ "5" :> 53 @@ "6" :> 54 @@ "7" :> 55 @@ "8" :> 56 @@ "9" :> 57 @@ ":" :> 58 @@ "A" :> 65 @@ "B" :> 66 @@ "C" :> 67 @@ "D" :> 68 @@ "F" :> 70 @@ "H" :> 72 @@ "I" :> 73 @@ "K" :> 75 @@ "L" :> 76 @@ "N" :> 78 @@ "Q" :> 81 @@ "R" :> 82 @@ "S" :> 83 @@ "T" :> 84 @@ "Z" :> 90 @@ "_" :> 95 @@ "a" :> 97 @@ "b" :> 98 @@ "c" :> 99 @@ "d" :> 100 @@ "e" :> 101 @@ "f" :> 102 @@ "g" :> 103 @@ "h" :> 104 @@ "i" :> 105 @@ "k" :> 107 @@ "l" :> 108 @@ "m" :> 109 @@ "n" :> 110 @@ "o" :> 111 @@ "p" :> 112 @@ "q" :> 113 @@ "r" :> 114 @@ "s" :> 115 @@ "t" :> 116 @@ "u" :> 117 @@ "v" :> 118 @@ "w" :> 119 @@ "x" :> 120 @@ "y" :> 121 )

LowerTable ==
  (  "A" :> "a" @@ "B" :> "b" @@ "C" :> "c" @@ "D" :> "d" @@ "F" :> "f" @@ "H" :> "h" @@ "I" :> "i" @@ "K" :> "k" @@ "L" :> "l" @@ "N" :> "n" @@ "Q" :> "q" @@ "R" :> "r" @@ "S" :> "s" @@ "T" :> "t" @@ "Z" :> "z" )

WordChars ==
  { "0", "1", "2", "3", "4", "5", "6", "7", "8", "9", "A", "B", "C", "D", "F", "H", "I", "K", "L", "N", "Q", "R", "S", "T", "Z", "_", "a", "b", "c", "d", "e", "f", "g", "h", "i", "k", "l", "m", "n", "o", "p", "q", "r", "s", "t", "u", "v", "w", "x", "y" }

TitleStrings ==
  { "",
    "Bank bank BANK loan",
    "Bankrupt firm",
    "Credit loan",
    "HDFC BANK Q2",
    "HDFC Bank profit",
    "Local weather",
    "Q1 results: profit",
    "RBI repo rate",
    "Stock, share: equity!",
    "bank_loan",
    "interest rate up" }

DateStrings ==
  { "", "2023-04-28", "20230427T161500Z", "20230427T171500Z",
    "20230427T181500Z", "20230427T191500Z", "20230427T201500Z", "20230427T211500Z",
    "20230427T221500Z", "20230427T231500Z", "20230428", "20230428T011500Z",
    "20230428T021500Z", "20230428T031500Z", "20230428T041500Z", "20230428T051500Z",
    "20230428T061500Z", "20230428T071500Z", "20230428T081500Z", "20230428T091500Z",
    "20230428T101500Z", "20230428T111500Z", "20230428T121500Z", "20230428T131500Z",
    "20230428T141500Z", "20230428T151500Z", "20230428T161500Z", "20230428T171500Z",
    "20230428T181500Z", "20230428T191500Z", "20230428T201500Z", "20230428T211500Z",
    "20230428T221500Z", "20230428T231500Z", "20230429T001500Z", "20230429T011500Z",
    "20230429T021500Z", "20230429T031500Z", "20230429T041500Z", "20230429T051500Z",
    "20230429T061500Z", "20230429T071500Z", "20230429T081500Z", "20230429T091500Z",
    "20230429T101500Z", "20230429T111500Z", "20230429T121500Z", "20230429T131500Z",
    "20230429T141500Z", "20230429T151500Z", "20230429T161500Z", "20230429T171500Z",
    "20230429T181500Z", "20230429T191500Z", "20230429T201500Z", "20230429T211500Z",
    "20230429T221500Z", "20230429T231500Z", "9", "Apr 28" }

ArticlesA ==
  << [title |-> "RBI repo rate", url |-> "c1", seendate |-> "20230428T231500Z"],
     [title |-> "Stock, share: equity!", url |-> "c2", seendate |-> "20230428T221500Z"],
     [title |-> "Bankrupt firm", url |-> "cx2", seendate |-> "20230428T211500Z"],
     [title |-> "RBI repo rate", url |-> "c3", seendate |-> "20230428T211500Z"],
     [title |-> "Bank bank BANK loan", url |-> "c4", seendate |-> "20230428T201500Z"],
     [title |-> "Credit loan", url |-> "c5", seendate |-> "20230428T191500Z"],
     [title |-> "Local weather", url |-> "cx5", seendate |-> "20230428T181500Z"],
     [title |-> "Q1 results: profit", url |-> "c6", seendate |-> "20230428T181500Z"],
     [title |-> "HDFC Bank profit", url |-> "c7", seendate |-> "20230428T171500Z"],
     [title |-> "Q1 results: profit", url |-> "c8", seendate |-> "20230428T161500Z"],
     [title |-> "Credit loan", url |-> "c9", seendate |-> "20230428T151500Z"],
     [title |-> "", url |-> "cx9", seendate |-> "20230428T141500Z"],
     [title |-> "Q1 results: profit", url |-> "c10", seendate |-> "20230428T141500Z"],
     [title |-> "RBI repo rate", url |-> "c11", seendate |-> "20230428T131500Z"],
     [title |-> "Bank bank BANK loan", url |-> "c12", seendate |-> "20230428T121500Z"],
     [title |-> "RBI repo rate", url |-> "c13", seendate |-> "20230428T111500Z"],
     [title |-> "HDFC BANK Q2", url |-> "c14", seendate |-> "20230428T101500Z"],
     [title |-> "RBI repo rate", url |-> "c15", seendate |-> "20230428T091500Z"],
     [title |-> "Stock, share: equity!", url |-> "c16", seendate |-> "20230428T081500Z"],
     [title |-> "RBI repo rate", url |-> "c17", seendate |-> "20230428T071500Z"] >>

ArticlesB ==
  << [title |-> "HDFC Bank profit", url |-> "u1", seendate |-> "2023-04-28"],
     [title |-> "RBI repo rate", url |-> "u2", seendate |-> ""],
     [title |-> "HDFC Bank profit", url |-> "u1", seendate |-> "Apr 28"],
     [title |-> "HDFC BANK Q2", url |-> "<None>", seendate |-> "20230428T231500Z"],
     [title |-> "Credit loan", url |-> "u3", seendate |-> "<None>"] >>

ArticlesC ==
  << [title |-> "Credit loan", url |-> "s1", seendate |-> "20230429T231500Z"],
     [title |-> "Q1 results: profit", url |-> "s2", seendate |-> "20230429T221500Z"],
     [title |-> "RBI repo rate", url |-> "s3", seendate |-> "20230429T211500Z"],
     [title |-> "Stock, share: equity!", url |-> "s4", seendate |-> "20230429T201500Z"],
     [title |-> "interest rate up", url |-> "sx4", seendate |-> "20230429T191500Z"],
     [title |-> "RBI repo rate", url |-> "s5", seendate |-> "20230429T191500Z"],
     [title |-> "HDFC BANK Q2", url |-> "s6", seendate |-> "20230429T181500Z"],
     [title |-> "RBI repo rate", url |-> "s7", seendate |-> "20230429T171500Z"],
     [title |-> "Q1 results: profit", url |-> "s8", seendate |-> "20230429T161500Z"],
     [title |-> "Bank bank BANK loan", url |-> "s9", seendate |-> "20230429T151500Z"],
     [title |-> "Q1 results: profit", url |-> "s10", seendate |-> "20230429T141500Z"],
     [title |-> "", url |-> "sx10", seendate |-> "20230429T131500Z"],
     [title |-> "RBI repo rate", url |-> "s11", seendate |-> "20230429T131500Z"],
     [title |-> "HDFC BANK Q2", url |-> "s12", seendate |-> "20230429T121500Z"],
     [title |-> "RBI repo rate", url |-> "s13", seendate |-> "20230429T111500Z"],
     [title |-> "Stock, share: equity!", url |-> "s14", seendate |-> "20230429T101500Z"],
     [title |-> "RBI repo rate", url |-> "s15", seendate |-> "20230429T091500Z"],
     [title |-> "Local weather", url |-> "sx15", seendate |-> "20230429T081500Z"],
     [title |-> "Q1 results: profit", url |-> "s16", seendate |-> "20230429T081500Z"],
     [title |-> "RBI repo rate", url |-> "s17", seendate |-> "20230429T071500Z"],
     [title |-> "HDFC BANK Q2", url |-> "s18", seendate |-> "20230429T061500Z"],
     [title |-> "RBI repo rate", url |-> "s19", seendate |-> "20230429T051500Z"],
     [title |-> "Q1 results: profit", url |-> "s20", seendate |-> "20230429T041500Z"],
     [title |-> "bank_loan", url |-> "sx20", seendate |-> "20230429T031500Z"],
     [title |-> "HDFC Bank profit", url |-> "s21", seendate |-> "20230429T031500Z"],
     [title |-> "Q1 results: profit", url |-> "s22", seendate |-> "20230429T021500Z"],
     [title |-> "RBI repo rate", url |-> "s23", seendate |-> "20230429T011500Z"],
     [title |-> "Q1 results: profit", url |-> "s24", seendate |-> "20230429T001500Z"],
     [title |-> "Credit loan", url |-> "s25", seendate |-> "20230427T231500Z"],
     [title |-> "Q1 results: profit", url |-> "s26", seendate |-> "20230427T221500Z"],
     [title |-> "Bank bank BANK loan", url |-> "s27", seendate |-> "20230427T211500Z"],
     [title |-> "Q1 results: profit", url |-> "s28", seendate |-> "20230427T201500Z"],
     [title |-> "RBI repo rate", url |-> "s29", seendate |-> "20230427T191500Z"],
     [title |-> "Q1 results: profit", url |-> "s30", seendate |-> "20230427T181500Z"],
     [title |-> "Credit loan", url |-> "s31", seendate |-> "20230427T171500Z"],
     [title |-> "Q1 results: profit", url |-> "s32", seendate |-> "20230427T161500Z"] >>

ArticlesD ==
  << [title |-> "Credit loan", url |-> "u3", seendate |-> "2023-04-28"],
     [title |-> "HDFC Bank profit", url |-> "u1", seendate |-> "20230428"],
     [title |-> "RBI repo rate", url |-> "u1", seendate |-> "<None>"],
     [title |-> "HDFC BANK Q2", url |-> "<None>", seendate |-> "9"] >>

ArticlesE ==
  << [title |-> "Bankrupt firm", url |-> "e1", seendate |-> "20230428T011500Z"],
     [title |-> "Local weather", url |-> "e2", seendate |-> "20230428T021500Z"],
     [title |-> "", url |-> "e3", seendate |-> "20230428T031500Z"] >>

ArticlesM ==
  << [title |-> "HDFC Bank profit", url |-> "m1", seendate |-> "20230428T041500Z"],
     [title |-> "<non-str>", url |-> "m2", seendate |-> "20230428T051500Z"],
     [title |-> "Credit loan", url |-> "m3", seendate |-> "20230428T061500Z"] >>

(***************************************************************************)
(* Strings.                                                                *)
(***************************************************************************)
Min(a, b) == IF a <= b THEN a ELSE b

SetMin(S) == CHOOSE x \in S : \A y \in S : x <= y

SetMax(S) == CHOOSE x \in S : \A y \in S : x >= y

\* str.lower() on one character
LowerChar(c) == IF c \in DOMAIN LowerTable THEN LowerTable[c] ELSE c

\* str.lower()
Lower(cs) == [i \in 1..Len(cs) |-> LowerChar(cs[i])]

\* \w
IsWordChar(c) == c \in WordChars

\* the positions at which the character sequences a and b both have a character
\* and differ
Differences(a, b) == {i \in 1..Min(Len(a), Len(b)) : a[i] # b[i]}

\* Python's str <= str on character sequences: decided by the code points at the
\* first difference; without one the shorter (a prefix) is the smaller
SeqLeq(a, b) ==
  IF Differences(a, b) = {} THEN Len(a) <= Len(b)
  ELSE Ord[a[SetMin(Differences(a, b))]] < Ord[b[SetMin(Differences(a, b))]]

StrLeq(s, t) == SeqLeq(Chars[s], Chars[t])

\* StrLeq on the date strings of the modelled responses, tabulated once
DateLeqTable == [p \in DateStrings \X DateStrings |-> StrLeq(p[1], p[2])] @@ <<>>

(***************************************************************************)
(* KEYWORD_PATTERN and compute_relevance.                                  *)
(***************************************************************************)
\* a faulty variant of MatchesAt without re.IGNORECASE
MatchesAtCaseSensitive(cs, i, kw) ==
  /\ i + Len(kw) - 1 <= Len(cs)
  /\ \A j \in 1..Len(kw) : cs[i + j - 1] = kw[j]

\* one alternative of KEYWORD_PATTERN matches at position i, ignoring case
MatchesAt(cs, i, kw) ==
  /\ i + Len(kw) - 1 <= Len(cs)
  /\ \A j \in 1..Len(kw) : LowerChar(cs[i + j - 1]) = LowerChar(kw[j])

\* KEYWORD_PATTERN.search(title) is not None
KEYWORD_PATTERN_search(title) ==
  \E i \in 1..Len(Chars[title]) : \E k \in 1..Len(FINANCE_KEYWORDS) :
     MatchesAt(Chars[title], i, Chars[FINANCE_KEYWORDS[k]])

\* re.findall(r'\b\w+\b', s), as the <<first, last>> positions of the words: the
\* maximal runs of word characters
FindWords(cs) ==
  { w \in (1..Len(cs)) \X (1..Len(cs)) :
      /\ w[1] <= w[2]
      /\ \A i \in w[1]..w[2] : IsWordChar(cs[i])
      /\ w[1] = 1 \/ ~IsWordChar(cs[w[1] - 1])
      /\ w[2] = Len(cs) \/ ~IsWordChar(cs[w[2] + 1]) }

\* sum(counts.get(k.lower(), 0) for k in FINANCE_KEYWORDS): one for every pair of
\* a keyword and an occurrence of a word equal to it
KeywordCount(cs) ==
  Cardinality({ p \in (1..Len(FINANCE_KEYWORDS)) \X FindWords(cs) :
                  SubSeq(cs, p[2][1], p[2][2]) = Lower(Chars[FINANCE_KEYWORDS[p[1]]]) })

compute_relevance(text) ==
  IF text \in {None, NonStr} THEN 0 ELSE KeywordCount(Lower(Chars[text]))

\* KEYWORD_PATTERN.search and compute_relevance on the titles of the modelled
\* responses, tabulated once
SearchTable == [t \in TitleStrings |-> KEYWORD_PATTERN_search(t)] @@ <<>>
RelevanceTable == [t \in TitleStrings \cup {None, NonStr} |-> compute_relevance(t)] @@ <<>>

(***************************************************************************)
(* Calendar dates (datetime.date) as <<year, month, day>>.                 *)
(***************************************************************************)
START_DATE == <<2023, 4, 28>>

IsLeap(y) == (y % 4 = 0 /\ y % 100 # 0) \/ y % 400 = 0

DaysInMonth(y, m) ==
  IF m = 2 THEN (IF IsLeap(y) THEN 29 ELSE 28)
  ELSE IF m \in {4, 6, 9, 11} THEN 30 ELSE 31

\* d + dt.timedelta(days=1)
NextDay(d) ==
  IF d[3] < DaysInMonth(d[1], d[2]) THEN <<d[1], d[2], d[3] + 1>>
  ELSE IF d[2] < 12 THEN <<d[1], d[2] + 1, 1>>
  ELSE <<d[1] + 1, 1, 1>>

RECURSIVE AddDays(_, _)
AddDays(d, n) == IF n = 0 THEN d ELSE AddDays(NextDay(d), n - 1)

END_DATE == AddDays(START_DATE, RangeDays - 1)

\* date <= date
DateLeq(a, b) ==
  \/ a[1] < b[1]
  \/ a[1] = b[1] /\ a[2] < b[2]
  \/ a[1] = b[1] /\ a[2] = b[2] /\ a[3] <= b[3]

Digit(n) == <<"0", "1", "2", "3", "4", "5", "6", "7", "8", "9">>[n + 1]

\* '%Y', '%m', '%d': decimal digits, zero-padded
Digits4(n) == <<Digit(n \div 1000), Digit((n \div 100) % 10), Digit((n \div 10) % 10), Digit(n % 10)>>
Digits2(n) == <<Digit(n \div 10), Digit(n % 10)>>

\* d.strftime('%Y%m%d')
strftime(d) == Digits4(d[1]) \o Digits2(d[2]) \o Digits2(d[3])

\* params["STARTDATETIME"], params["ENDDATETIME"]
STARTDATETIME(start_date) == strftime(start_date) \o <<"0", "0", "0", "0", "0", "0">>
ENDDATETIME(end_date) == strftime(end_date) \o <<"2", "3", "5", "9", "5", "9">>

(***************************************************************************)
(* The search endpoint's answers to requests.get.                          *)
(***************************************************************************)
Response(transport_ok, status_code, json_ok, has_articles, articles) ==
  [transport_ok |-> transport_ok, status_code |-> status_code, json_ok |-> json_ok,
   has_articles |-> has_articles, articles |-> articles]

\* before the first request
NoResponse == Response(FALSE, 0, FALSE, FALSE, <<>>)

Articles(list) == Response(TRUE, 200, TRUE, TRUE, list)

\* answers after which fetch_news_from_gdelt returns without reaching "return articles"
TransportError == Response(FALSE, 0, FALSE, FALSE, <<>>)   \* requests.get raises
HttpError == Response(TRUE, 500, FALSE, FALSE, <<>>)       \* HTTP 500
InvalidJson == Response(TRUE, 200, FALSE, FALSE, <<>>)     \* response.json() raises
NoArticlesField == Response(TRUE, 200, TRUE, FALSE, <<>>)  \* no "articles" key
Malformed == Articles(ArticlesM)                           \* the loop body raises

CompanyResponses ==
  {TransportError, HttpError, Malformed, Articles(ArticlesA), Articles(ArticlesB), Articles(ArticlesE)}

SectorResponses ==
  {InvalidJson, NoArticlesField, Articles(ArticlesC), Articles(ArticlesD)}

(***************************************************************************)
(* fetch_news_from_gdelt.                                                  *)
(***************************************************************************)
\* the request parameters that depend on the arguments
Params(query, start_date, end_date) ==
  [query |-> query, STARTDATETIME |-> STARTDATETIME(start_date),
   ENDDATETIME |-> ENDDATETIME(end_date)]

\* "if not title or not KEYWORD_PATTERN.search(title): continue", for a string
\* or absent title
SkipsTitle(title) == title \in {"", None} \/ ~SearchTable[title]

\* a faulty variant of EmitsArticle that lacks the "if score == 0: continue" test
EmitsArticleNoScoreTest(a) == ~SkipsTitle(a.title)

\* the loop body appends a record for raw article a
EmitsArticle(a) == ~SkipsTitle(a.title) /\ RelevanceTable[a.title] # 0

ArticleRecord(a) ==
  [date |-> a.seendate, title |-> a.title, url |-> a.url,
   relevance_score |-> RelevanceTable[a.title]]

\* the positions of the elements on which the loop body raises
\* (KEYWORD_PATTERN.search on a truthy title that is not a string)
Raising(raw) == {i \in 1..Len(raw) : raw[i].title = NonStr}

\* the elements the loop body completes on
Processed(raw) == IF Raising(raw) = {} THEN raw ELSE SubSeq(raw, 1, SetMin(Raising(raw)) - 1)

Records(raw) == [i \in 1..Len(raw) |-> ArticleRecord(raw[i])]

\* "for a in data["articles"]": whether the body raised, and the articles list
\* built until then
ArticleLoop(raw) ==
  [raised |-> Raising(raw) # {},
   articles |-> Records(SelectSeq(Processed(raw), EmitsArticle))]

\* a faulty variant of fetch_news_from_gdelt whose except clause returns what the
\* loop had collected
fetch_news_from_gdelt_partial(response) ==
  IF ~response.transport_ok THEN [returns |-> "except", articles |-> <<>>]
  ELSE IF response.status_code # 200 THEN [returns |-> "http_error", articles |-> <<>>]
  ELSE IF ~response.json_ok THEN [returns |-> "except", articles |-> <<>>]
  ELSE IF ~response.has_articles THEN [returns |-> "no_articles", articles |-> <<>>]
  ELSE LET r == ArticleLoop(response.articles) IN
       IF r.raised THEN [returns |-> "except", articles |-> r.articles]
       ELSE [returns |-> "articles", articles |-> r.articles]

\* the return statement taken and the list returned
fetch_news_from_gdelt(response) ==
  IF ~response.transport_ok THEN [returns |-> "except", articles |-> <<>>]
  ELSE IF response.status_code # 200 THEN [returns |-> "http_error", articles |-> <<>>]
  ELSE IF ~response.json_ok THEN [returns |-> "except", articles |-> <<>>]
  ELSE IF ~response.has_articles THEN [returns |-> "no_articles", articles |-> <<>>]
  ELSE LET r == ArticleLoop(response.articles) IN
       IF r.raised THEN [returns |-> "except", articles |-> <<>>]
       ELSE [returns |-> "articles", articles |-> r.articles]

(***************************************************************************)
(* Tagging, ranking and truncation in main().                              *)
(***************************************************************************)
\* "for c in articles: c["category"] = category".  fetched_on is bookkeeping of
\* the model (the day whose iteration fetched the record), not a column.
Tag(articles, category, day) ==
  [i \in 1..Len(articles) |->
     [date |-> articles[i].date, title |-> articles[i].title, url |-> articles[i].url,
      relevance_score |-> articles[i].relevance_score, category |-> category,
      fetched_on |-> day]]

Scores(articles) == {articles[i].relevance_score : i \in 1..Len(articles)}

WithScore(articles, v) == SelectSeq(articles, LAMBDA r : r.relevance_score = v)

\* the records of score v, then those of v - 1, ... down to score lo
RECURSIVE DescendingFrom(_, _, _)
DescendingFrom(articles, v, lo) ==
  IF v < lo THEN <<>>
  ELSE WithScore(articles, v) \o DescendingFrom(articles, v - 1, lo)

\* the records of score v, then those of v + 1, ... up to score hi
RECURSIVE AscendingFrom(_, _, _)
AscendingFrom(articles, v, hi) ==
  IF v > hi THEN <<>>
  ELSE WithScore(articles, v) \o AscendingFrom(articles, v + 1, hi)

Reverse(s) == [i \in 1..Len(s) |-> s[Len(s) - i + 1]]

\* a faulty variant of sorted_by_score that reverses an ascending sort
sorted_by_score_reversed(articles) ==
  IF articles = <<>> THEN <<>>
  ELSE Reverse(AscendingFrom(articles, SetMin(Scores(articles)), SetMax(Scores(articles))))

\* sorted(articles, key=lambda x: x["relevance_score"], reverse=True): stable, so
\* records of equal score stay in the order of the list
sorted_by_score(articles) ==
  IF articles = <<>> THEN <<>>
  ELSE DescendingFrom(articles, SetMax(Scores(articles)), SetMin(Scores(articles)))

\* a faulty variant of Slice that keeps one record too many
SliceOneMore(s, n) == SubSeq(s, 1, Min(n + 1, Len(s)))

\* s[:n]
Slice(s, n) == SubSeq(s, 1, Min(n, Len(s)))

(***************************************************************************)
(* The Result Materializer: drop_duplicates and sort_values.               *)
(***************************************************************************)
SameKey(r, s) == r.title = s.title /\ r.url = s.url

\* the rows of frame at the positions idx, in that order
Rows(frame, idx) == [k \in 1..Len(idx) |-> frame[idx[k]]]

Positions(frame) == [i \in 1..Len(frame) |-> i]

\* a faulty variant of drop_duplicates with keep="last"
drop_duplicates_keep_last(frame) ==
  Rows(frame, SelectSeq(Positions(frame),
                        LAMBDA i : \A j \in (i + 1)..Len(frame) : ~SameKey(frame[j], frame[i])))

\* df.drop_duplicates(subset=["title", "url"]): a row stays unless an earlier row
\* has its title and url
drop_duplicates(frame) ==
  Rows(frame, SelectSeq(Positions(frame),
                        LAMBDA i : \A j \in 1..(i - 1) : ~SameKey(frame[j], frame[i])))

\* the number of modelled date strings smaller than d, tabulated once
DateRank ==
  [d \in DateStrings |-> Cardinality({e \in DateStrings : ~DateLeqTable[<<d, e>>]})] @@ <<>>

RanksOf(rows) == {DateRank[rows[i].date] : i \in 1..Len(rows)}

\* the rows whose date has a rank in lo..hi, by rank, rows of one date in the
\* order of the frame
RECURSIVE RowsRanked(_, _, _)
RowsRanked(rows, lo, hi) ==
  IF lo = hi THEN SelectSeq(rows, LAMBDA r : DateRank[r.date] = lo)
  ELSE RowsRanked(rows, lo, (lo + hi) \div 2) \o RowsRanked(rows, (lo + hi) \div 2 + 1, hi)

\* a stable ascending sort of rows whose date is a string
SortByDate(rows) ==
  IF rows = <<>> THEN <<>>
  ELSE RowsRanked(rows, SetMin(RanksOf(rows)), SetMax(RanksOf(rows)))

\* the places lo <= b < hi at which the date changes between s[b] and s[b + 1]
Breaks(s, lo, hi) == {b \in lo..(hi - 1) : s[b].date # s[b + 1].date}

\* the break nearest to the middle of lo..hi
MiddleBreak(s, lo, hi) ==
  CHOOSE b \in Breaks(s, lo, hi) :
    \A c \in Breaks(s, lo, hi) :
       (2 * b - lo - hi) * (2 * b - lo - hi) <= (2 * c - lo - hi) * (2 * c - lo - hi)

\* every order of s[lo..hi] that differs from it only among rows of equal date
RECURSIVE TieOrdersIn(_, _, _)
TieOrdersIn(s, lo, hi) ==
  IF Breaks(s, lo, hi) = {}
  THEN { [i \in 1..(hi - lo + 1) |-> s[lo - 1 + f[i]]] \o <<>> : f \in Permutations(1..(hi - lo + 1)) }
  ELSE { x \o y : x \in TieOrdersIn(s, lo, MiddleBreak(s, lo, hi)),
                  y \in TieOrdersIn(s, MiddleBreak(s, lo, hi) + 1, hi) }

TieOrders(s) == IF s = <<>> THEN {<<>>} ELSE TieOrdersIn(s, 1, Len(s))

\* df.to_csv: a missing value is written as an empty field
to_csv_row(r) ==
  [date |-> IF r.date = None THEN "" ELSE r.date, title |-> r.title,
   url |-> IF r.url = None THEN "" ELSE r.url, relevance_score |-> r.relevance_score,
   category |-> r.category, fetched_on |-> r.fetched_on]

to_csv(frame) == [i \in 1..Len(frame) |-> to_csv_row(frame[i])]

\* df.sort_values(by="date"): the default sort (quicksort) is not stable, so
\* rows of equal date come out in any order; missing dates go last, in order
sort_values(frame) ==
  { s \o SelectSeq(frame, LAMBDA r : r.date = None) :
      s \in TieOrders(SortByDate(SelectSeq(frame, LAMBDA r : r.date # None))) }

(***************************************************************************)
(* main().                                                                 *)
(***************************************************************************)
VARIABLES
  pc,                \* where main() stands: "loop", "sector", "extend", "sleep", "done"
  current_date,
  all_articles,
  total_company,
  total_sector,
  company_articles,
  sector_articles,
  response,          \* what the latest requests.get met
  fetched,           \* what the latest fetch_news_from_gdelt call returned
  calls,             \* the requests.get and time.sleep calls made so far, in order
  df,                \* the DataFrame after sort_values
  written,           \* OUTPUT_FILE has been written
  csv,               \* the rows of OUTPUT_FILE
  reported           \* "No articles fetched." has been printed

vars == <<pc, current_date, all_articles, total_company, total_sector, company_articles,
          sector_articles, response, fetched, calls, df, written, csv, reported>>

\* next_date = current_date + dt.timedelta(days=1)
next_date == NextDay(current_date)

FetchCall(query, returns) ==
  [op |-> "fetch", day |-> current_date, params |-> Params(query, current_date, next_date),
   seconds |-> 0, returns |-> returns]

SleepCall ==
  [op |-> "sleep", day |-> current_date, params |-> Params("", current_date, current_date),
   seconds |-> REQUEST_DELAY, returns |-> "slept"]

Init ==
  /\ pc = "loop"
  /\ current_date = START_DATE
  /\ all_articles = <<>>
  /\ total_company = 0
  /\ total_sector = 0
  /\ company_articles = <<>>
  /\ sector_articles = <<>>
  /\ response = NoResponse
  /\ fetched = <<>>
  /\ calls = <<>>
  /\ df = <<>>
  /\ written = FALSE
  /\ csv = <<>>
  /\ reported = FALSE

\* a faulty variant of LoopContinues with an exclusive upper boundary
LoopContinuesExclusive == current_date # END_DATE /\ DateLeq(current_date, END_DATE)

\* while current_date <= END_DATE
LoopContinues == DateLeq(current_date, END_DATE)

\* lines 128-135: the company call, its tagging, ranking and truncation
FetchCompany ==
  /\ pc = "loop"
  /\ LoopContinues
  /\ \E r \in CompanyResponses :
       LET result == fetch_news_from_gdelt(r) IN
       /\ response' = r
       /\ fetched' = result.articles
       /\ company_articles' =
            Slice(sorted_by_score(Tag(result.articles, "company", current_date)), COMPANY_TOP)
       /\ calls' = Append(calls, FetchCall(COMPANY_QUERY, result.returns))
  /\ pc' = "sector"
  /\ UNCHANGED <<current_date, all_articles, total_company, total_sector, sector_articles,
                 df, written, csv, reported>>

\* lines 137-141: the sector call, its tagging, ranking and truncation
FetchSector ==
  /\ pc = "sector"
  /\ \E r \in SectorResponses :
       LET result == fetch_news_from_gdelt(r) IN
       /\ response' = r
       /\ fetched' = result.articles
       /\ sector_articles' =
            Slice(sorted_by_score(Tag(result.articles, "sector", current_date)), SECTOR_TOP)
       /\ calls' = Append(calls, FetchCall(SECTOR_QUERY, result.returns))
  /\ pc' = "extend"
  /\ UNCHANGED <<current_date, all_articles, total_company, total_sector, company_articles,
                 df, written, csv, reported>>

\* lines 143-145
Extend ==
  /\ pc = "extend"
  /\ total_company' = total_company + Len(company_articles)
  /\ total_sector' = total_sector + Len(sector_articles)
  /\ all_articles' = all_articles \o company_articles \o sector_articles
  /\ pc' = "sleep"
  /\ UNCHANGED <<current_date, company_articles, sector_articles, response, fetched, calls,
                 df, written, csv, reported>>

\* lines 147-148
Sleep ==
  /\ pc = "sleep"
  /\ calls' = Append(calls, SleepCall)
  /\ current_date' = next_date
  /\ pc' = "loop"
  /\ UNCHANGED <<all_articles, total_company, total_sector, company_articles,
                 sector_articles, response, fetched, df, written, csv, reported>>

\* lines 150-152
ReportEmpty ==
  /\ pc = "loop"
  /\ ~LoopContinues
  /\ all_articles = <<>>
  /\ reported' = TRUE
  /\ pc' = "done"
  /\ UNCHANGED <<current_date, all_articles, total_company, total_sector, company_articles,
                 sector_articles, response, fetched, calls, df, written, csv>>

\* a faulty variant of Materialize that lacks the "if not all_articles" test
MaterializeAlways ==
  /\ pc = "loop"
  /\ ~LoopContinues
  /\ \E sorted \in sort_values(drop_duplicates(all_articles)) :
       df' = sorted /\ csv' = to_csv(sorted)
  /\ written' = TRUE
  /\ pc' = "done"
  /\ UNCHANGED <<current_date, all_articles, total_company, total_sector, company_articles,
                 sector_articles, response, fetched, calls, reported>>

\* lines 154-157
Materialize ==
  /\ pc = "loop"
  /\ ~LoopContinues
  /\ all_articles # <<>>
  /\ \E sorted \in sort_values(drop_duplicates(all_articles)) :
       df' = sorted /\ csv' = to_csv(sorted)
  /\ written' = TRUE
  /\ pc' = "done"
  /\ UNCHANGED <<current_date, all_articles, total_company, total_sector, company_articles,
                 sector_articles, response, fetched, calls, reported>>

Next == FetchCompany \/ FetchSector \/ Extend \/ Sleep \/ ReportEmpty \/ Materialize

Spec == Init /\ [][Next]_vars

\* main() moves on to its next statement
Advance == pc # "done" /\ pc' \in {"loop", "sector", "extend", "sleep", "done"} \ {pc}

\* main() runs on one thread and each of its steps returns (requests.get has a
\* timeout, time.sleep is finite): it does not stay at a statement forever
FairSpec == Spec /\ WF_pc(Advance)

(***************************************************************************)
(* Definitions used to state the properties.                               *)
(***************************************************************************)
\* date.toordinal(): the day's number in the proleptic Gregorian calendar
RECURSIVE DaysBeforeMonth(_, _)
DaysBeforeMonth(y, m) == IF m = 1 THEN 0 ELSE DaysBeforeMonth(y, m - 1) + DaysInMonth(y, m - 1)

toordinal(d) ==
  (d[1] - 1) * 365 + (d[1] - 1) \div 4 - (d[1] - 1) \div 100 + (d[1] - 1) \div 400
  + DaysBeforeMonth(d[1], d[2]) + d[3]

\* the number of days the loop has to process
DaysInRange == toordinal(END_DATE) - toordinal(START_DATE) + 1

Indices(s) == 1..Len(s)

FetchIndices == {i \in Indices(calls) : calls[i].op = "fetch"}

\* the fetch call did not reach "return articles"
FailedCall(c) == c.op = "fetch" /\ c.returns # "articles"

\* the response makes fetch_news_from_gdelt leave through a failure path
FailingResponse(r) ==
  \/ ~r.transport_ok
  \/ r.status_code # 200
  \/ ~r.json_ok
  \/ ~r.has_articles
  \/ \E i \in Indices(r.articles) : r.articles[i].title = NonStr

\* the rows of s fetched on day d for a category
RowsOf(s, d, category) ==
  {i \in Indices(s) : s[i].fetched_on = d /\ s[i].category = category}

CallDays == {calls[i].day : i \in Indices(calls)}

\* the string titles of the latest response
ResponseTitles ==
  {response.articles[i].title : i \in Indices(response.articles)} \ {NonStr, None}

\* x is the first record of its (title, url) pair in the accumulator
FirstOfKey(i) == \A j \in 1..(i - 1) : ~SameKey(all_articles[j], all_articles[i])

\* the place of record i of list s in a stable descending sort by relevance_score
Rank(s, i) ==
  Cardinality({j \in Indices(s) : s[j].relevance_score > s[i].relevance_score})
  + Cardinality({j \in 1..i : s[j].relevance_score = s[i].relevance_score})

\* kept is the first n records of the stable descending sort of s
IsTopN(kept, s, n) ==
  /\ Len(kept) = Min(n, Len(s))
  /\ \A i \in Indices(s) : Rank(s, i) <= n => kept[Rank(s, i)] = s[i]

(***************************************************************************)
(* C1.  Deduplication: the written output holds exactly one row for each   *)
(* distinct (title, url) pair of the accumulator, and that row is the      *)
(* pair's first record in accumulation order; a later record of the pair   *)
(* (whatever its category or date) does not survive.                       *)
(***************************************************************************)
C1_DedupKeepsFirst ==
  written =>
    /\ \A i \in Indices(all_articles) :
         Cardinality({j \in Indices(df) : SameKey(df[j], all_articles[i])}) = 1
    /\ \A j \in Indices(df) :
         \E i \in Indices(all_articles) : df[j] = all_articles[i] /\ FirstOfKey(i)
    /\ \A j \in Indices(csv) : csv[j] = to_csv_row(df[j])
    /\ Len(csv) = Len(df)

\* a pair fetched as company and again as sector, of which only the first is written
C1_Witness ==
  /\ written
  /\ \E i, k \in Indices(all_articles) :
       /\ i < k
       /\ SameKey(all_articles[i], all_articles[k])
       /\ all_articles[i].category # all_articles[k].category
       /\ FirstOfKey(i)
       /\ \E j \in Indices(csv) : csv[j] = to_csv_row(all_articles[i])
       /\ \A j \in Indices(csv) : csv[j] # to_csv_row(all_articles[k])

(***************************************************************************)
(* C2.  For every day of the range, the rows of the output (and of the     *)
(* accumulator) that the day's iteration fetched number at most 15 with    *)
(* category company and at most 30 with category sector.                   *)
(***************************************************************************)
C2_PerDayCaps ==
  /\ Len(company_articles) <= COMPANY_TOP
  /\ Len(sector_articles) <= SECTOR_TOP
  /\ \A d \in CallDays :
       /\ Cardinality(RowsOf(all_articles, d, "company")) <= COMPANY_TOP
       /\ Cardinality(RowsOf(all_articles, d, "sector")) <= SECTOR_TOP
       /\ Cardinality(RowsOf(csv, d, "company")) <= COMPANY_TOP
       /\ Cardinality(RowsOf(csv, d, "sector")) <= SECTOR_TOP

\* a day whose calls both returned more than the cap, written at the cap
C2_Witness ==
  /\ written
  /\ \E d \in CallDays :
       /\ Cardinality(RowsOf(csv, d, "company")) = COMPANY_TOP
       /\ Cardinality(RowsOf(csv, d, "sector")) = SECTOR_TOP

(***************************************************************************)
(* C3.  Every record returned by the fetcher, ranked, accumulated or       *)
(* written has relevance_score >= 1, a non-empty title that passes the     *)
(* keyword filter, and the score compute_relevance gives its title.        *)
(***************************************************************************)
ScoredRecord(r) ==
  /\ r.relevance_score >= 1
  /\ r.title # ""
  /\ SearchTable[r.title]
  /\ r.relevance_score = RelevanceTable[r.title]

C3_ScoreAtLeastOne ==
  /\ \A i \in Indices(fetched) : ScoredRecord(fetched[i])
  /\ \A i \in Indices(company_articles) : ScoredRecord(company_articles[i])
  /\ \A i \in Indices(sector_articles) : ScoredRecord(sector_articles[i])
  /\ \A i \in Indices(all_articles) : ScoredRecord(all_articles[i])
  /\ \A i \in Indices(df) : ScoredRecord(df[i])
  /\ \A i \in Indices(csv) : ScoredRecord(csv[i])

\* rows were written after a response that held an empty title, a title the
\* filter rejects and a title the filter accepts with score 0
C3_Witness ==
  /\ written
  /\ csv # <<>>
  /\ \E i, j, k \in Indices(response.articles) :
       /\ response.articles[i].title = ""
       /\ ~SearchTable[response.articles[j].title]
       /\ SearchTable[response.articles[k].title]
       /\ RelevanceTable[response.articles[k].title] = 0

(***************************************************************************)
(* C4.  A fetch call that fails (transport or parsing exception, non-200   *)
(* status, no "articles" field) returns an empty list; no record of that   *)
(* (day, category) enters the accumulator; the next call of the day and    *)
(* the next day follow as after a success; no (day, category) call is made *)
(* twice.                                                                  *)
(***************************************************************************)
C4_FailedCallIsEmptyAndFinal ==
  /\ (pc \in {"sector", "extend"} /\ FailingResponse(response)) =>
        /\ fetched = <<>>
        /\ FailedCall(calls[Len(calls)])
  /\ \A i \in FetchIndices :
        FailedCall(calls[i]) =>
          /\ RowsOf(all_articles, calls[i].day, calls[i].params.query) = {}
          /\ calls[i].params.query = COMPANY_QUERY =>
               IF i = Len(calls) THEN pc = "sector"
               ELSE /\ calls[i + 1].op = "fetch"
                    /\ calls[i + 1].params.query = SECTOR_QUERY
                    /\ calls[i + 1].day = calls[i].day
          /\ calls[i].params.query = SECTOR_QUERY =>
               IF i = Len(calls) THEN pc \in {"extend", "sleep"}
               ELSE /\ calls[i + 1].op = "sleep"
                    /\ i + 1 = Len(calls) => pc \in {"loop", "done"}
  /\ \A i, j \in FetchIndices :
        (calls[i].day = calls[j].day /\ calls[i].params.query = calls[j].params.query) => i = j
  /\ pc = "done" =>
        \A i \in FetchIndices : \A q \in {COMPANY_QUERY, SECTOR_QUERY} :
           \E j \in FetchIndices : calls[j].day = calls[i].day /\ calls[j].params.query = q

\* the run ended after a day whose company call failed on a malformed element
\* and whose sector call succeeded, and after a later day that succeeded
C4_Witness ==
  /\ pc = "done"
  /\ written
  /\ \E i, j \in FetchIndices :
       /\ i < j
       /\ calls[i].params.query = COMPANY_QUERY
       /\ calls[i].returns = "except"
       /\ calls[i + 1].returns = "articles"
       /\ RowsOf(all_articles, calls[i].day, SECTOR_QUERY) # {}
       /\ calls[j].day # calls[i].day
       /\ RowsOf(all_articles, calls[j].day, COMPANY_QUERY) # {}

(***************************************************************************)
(* C5.  The file is written only after the last day has been processed and *)
(* only when the accumulator is not empty; with an empty accumulator the   *)
(* run reports "no articles" and writes nothing.                           *)
(***************************************************************************)
C5_WriteIffNonEmpty ==
  /\ written =>
       /\ pc = "done"
       /\ all_articles # <<>>
       /\ ~reported
       /\ Len(calls) = 3 * DaysInRange
       /\ toordinal(current_date) = toordinal(END_DATE) + 1
  /\ reported =>
       /\ pc = "done"
       /\ all_articles = <<>>
       /\ csv = <<>>
  /\ pc = "done" =>
       /\ written <=> all_articles # <<>>
       /\ reported <=> all_articles = <<>>

\* nothing accumulated: some calls failed, others returned only filtered-out articles
C5_Witness ==
  /\ pc = "done"
  /\ reported
  /\ ~written
  /\ \E i, j \in FetchIndices : FailedCall(calls[i]) /\ calls[j].returns = "articles"

(***************************************************************************)
(* C6.  The rows of the written file are non-decreasing under string       *)
(* comparison of the date field.  The code fails this on an article that   *)
(* has no seendate: its date is None, sort_values places it last and       *)
(* to_csv writes an empty field, after rows whose date is not empty.       *)
(***************************************************************************)
C6_RowsSortedByDate ==
  written => \A i \in 1..(Len(csv) - 1) : StrLeq(csv[i].date, csv[i + 1].date)

(***************************************************************************)
(* C7.  The calls made are, for each calendar day of [START_DATE,          *)
(* END_DATE] in increasing order, the company fetch, the sector fetch with *)
(* the same window and one sleep; the run ends, and when it ends every day *)
(* of the range has been processed and current_date is END_DATE + 1.       *)
(***************************************************************************)
C7_CallShape ==
  /\ Len(calls) <= 3 * DaysInRange
  /\ \A i \in Indices(calls) :
       /\ toordinal(calls[i].day) = toordinal(START_DATE) + ((i - 1) \div 3)
       /\ (i - 1) % 3 = 0 => calls[i].op = "fetch" /\ calls[i].params.query = COMPANY_QUERY
       /\ (i - 1) % 3 = 1 =>
             /\ calls[i].op = "fetch"
             /\ calls[i].params.query = SECTOR_QUERY
             /\ calls[i].params.STARTDATETIME = calls[i - 1].params.STARTDATETIME
             /\ calls[i].params.ENDDATETIME = calls[i - 1].params.ENDDATETIME
       /\ (i - 1) % 3 = 2 => calls[i].op = "sleep" /\ calls[i].seconds = REQUEST_DELAY
  /\ toordinal(current_date) = toordinal(START_DATE) + (Len(calls) \div 3)
  /\ pc = "done" =>
       /\ Len(calls) = 3 * DaysInRange
       /\ toordinal(current_date) = toordinal(END_DATE) + 1

C7_DayLoop == []C7_CallShape /\ <>(pc = "done")

\* the run has ended after a day with two failed calls and a day with two successes
C7_Witness ==
  /\ pc = "done"
  /\ Len(calls) = 3 * DaysInRange
  /\ \E i, j \in FetchIndices :
       /\ calls[i].params.query = COMPANY_QUERY
       /\ calls[j].params.query = COMPANY_QUERY
       /\ FailedCall(calls[i]) /\ FailedCall(calls[i + 1]) /\ calls[i + 2].op = "sleep"
       /\ ~FailedCall(calls[j]) /\ ~FailedCall(calls[j + 1]) /\ calls[j + 2].op = "sleep"

(***************************************************************************)
(* C8.  The window of a call made for day d covers day d only, so no       *)
(* calendar day lies in the windows of two iterations.  The code fails     *)
(* this: it sends the next day's date with 235959 as ENDDATETIME, so the   *)
(* window of day d also covers day d + 1.                                  *)
(***************************************************************************)
\* some instant of calendar day x lies between the bounds of the call's window
Covers(c, x) ==
  /\ SeqLeq(c.params.STARTDATETIME, ENDDATETIME(x))
  /\ SeqLeq(STARTDATETIME(x), c.params.ENDDATETIME)

C8_OneDayWindows ==
  \A i \in FetchIndices : \A n \in 0..RangeDays :
     Covers(calls[i], AddDays(START_DATE, n)) => AddDays(START_DATE, n) = calls[i].day

(***************************************************************************)
(* C9.  The records kept for a category are the first N (15 company, 30    *)
(* sector) of the fetcher's list in descending order of relevance_score,   *)
(* records of equal score in the order the fetcher returned them; a        *)
(* dropped record never outscores a kept one; N or fewer are all kept.     *)
(***************************************************************************)
KeptIsTop(kept, category, n) ==
  LET s == Tag(fetched, category, current_date) IN
  /\ IsTopN(kept, s, n)
  /\ \A i \in Indices(s) : \A k \in Indices(kept) :
        Rank(s, i) > n => s[i].relevance_score <= kept[k].relevance_score
  /\ Len(s) <= n => \A i \in Indices(s) : \E k \in Indices(kept) : kept[k] = s[i]

C9_TopNStable ==
  /\ pc = "sector" => KeptIsTop(company_articles, "company", COMPANY_TOP)
  /\ pc = "extend" => KeptIsTop(sector_articles, "sector", SECTOR_TOP)

\* more than N returned, and a dropped record ties with a kept one
C9_Witness ==
  /\ pc = "extend"
  /\ Len(fetched) > SECTOR_TOP
  /\ Len(company_articles) = COMPANY_TOP
  /\ \E i \in Indices(fetched) : \E k \in Indices(sector_articles) :
       /\ Rank(fetched, i) > SECTOR_TOP
       /\ fetched[i].relevance_score = sector_articles[k].relevance_score

(***************************************************************************)
(* C10.  For every title of a response, a score of at least 1 implies that *)
(* the keyword filter accepts the title; titles exist that the filter      *)
(* accepts with score 0, and the fetcher returns no record for them.       *)
(***************************************************************************)
C10_FilterMorePermissive ==
  \A t \in ResponseTitles :
     /\ RelevanceTable[t] >= 1 => SearchTable[t]
     /\ (SearchTable[t] /\ RelevanceTable[t] = 0) =>
           \A i \in Indices(fetched) : fetched[i].title # t

\* "Bankrupt firm": the keyword "bank" occurs only inside a longer word
C10_Witness ==
  /\ pc = "sector"
  /\ fetched # <<>>
  /\ "Bankrupt firm" \in ResponseTitles
  /\ SearchTable["Bankrupt firm"]
  /\ RelevanceTable["Bankrupt firm"] = 0
  /\ \A i \in Indices(fetched) : fetched[i].title # "Bankrupt firm"
====
